---- MODULE Spec2Model ----
(***************************************************************************)
(* Model of the two console-stripping scripts, remove_console.py and       *)
(* clean_console.py.  A text is a sequence of one-character strings.  The  *)
(* regular expressions of the scripts are kept as patterns (sequences of   *)
(* elements) and matched by a backtracking matcher that tries the greedy   *)
(* choices in the order Python's re module tries them.                     *)
(***************************************************************************)
EXTENDS Integers, Sequences, FiniteSets, TLC

(***************************************************************************)
(* Characters and literals                                                 *)
(***************************************************************************)
NL == "\n"

\* \s of a str pattern, and the characters str.strip() removes
IsSpace(c) == c \in {" ", "\t", "\n", "\r", "\f"}

ConsoleLog == <<"c","o","n","s","o","l","e",".","l","o","g","(">>
ConsoleWarn == <<"c","o","n","s","o","l","e",".","w","a","r","n","(">>
ConsoleError == <<"c","o","n","s","o","l","e",".","e","r","r","o","r","(">>
Catch == <<".","c","a","t","c","h","(">>
\* the replacement string '.catch(e => {})'
EmptyCatch == <<".","c","a","t","c","h","(","e"," ","=",">"," ","{","}",")">>

(***************************************************************************)
(* Patterns: a sequence of elements.                                       *)
(*   chr c      the character c                                            *)
(*   star cls   cls*, greedy; cls is "space" (\s) or "notclose" ([^)])     *)
(*   bol, eol   ^ and $ under re.MULTILINE                                 *)
(***************************************************************************)
Chr(c) == [k |-> "chr", c |-> c]
Star(cls) == [k |-> "star", c |-> cls]
Bol == [k |-> "bol", c |-> ""]
Eol == [k |-> "eol", c |-> ""]
Lit(s) == [i \in 1..Len(s) |-> Chr(s[i])]

InClass(cls, c) == IF cls = "space" THEN IsSpace(c) ELSE c # ")"

\* console\.log\([^)]*\);\s*   and   console\.warn\([^)]*\);\s*
CallPattern(name) == Lit(name) \o <<Star("notclose"), Chr(")"), Chr(";"), Star("space")>>
\* ^\s*console\.log\([^)]*\);\s*$   and the same for warn
LinePattern(name) == <<Bol, Star("space")>> \o CallPattern(name) \o <<Eol>>
\* \.catch\([^)]*console\.log\([^)]*\)[^)]*\)
CatchPattern == Lit(Catch) \o <<Star("notclose")>> \o Lit(ConsoleLog)
                  \o <<Star("notclose"), Chr(")"), Star("notclose"), Chr(")")>>
\* \n\s*\n\s*\n
BlankPattern == <<Chr(NL), Star("space"), Chr(NL), Star("space"), Chr(NL)>>

(***************************************************************************)
(* The matcher.  MatchHere(pat, k, s, p) matches the elements k.. of pat   *)
(* against s from position p and returns the position after the match, or  *)
(* 0 when there is none.  A star takes the longest run first and gives     *)
(* characters back one at a time.                                          *)
(***************************************************************************)
RECURSIVE RunLen(_, _, _)
RunLen(cls, s, p) ==
  IF p <= Len(s) /\ InClass(cls, s[p]) THEN 1 + RunLen(cls, s, p + 1) ELSE 0

RECURSIVE MatchHere(_, _, _, _)
RECURSIVE StarTry(_, _, _, _, _)
StarTry(pat, k, s, p, n) ==
  LET r == MatchHere(pat, k + 1, s, p + n)
  IN  IF r # 0 THEN r
      ELSE IF n = 0 THEN 0
      ELSE StarTry(pat, k, s, p, n - 1)

MatchHere(pat, k, s, p) ==
  IF k > Len(pat) THEN p
  ELSE LET e == pat[k]
       IN CASE e.k = "chr" ->
                 IF p <= Len(s) /\ s[p] = e.c THEN MatchHere(pat, k + 1, s, p + 1) ELSE 0
            [] e.k = "star" -> StarTry(pat, k, s, p, RunLen(e.c, s, p))
            [] e.k = "bol" ->
                 IF p = 1 \/ s[p - 1] = NL THEN MatchHere(pat, k + 1, s, p) ELSE 0
            [] e.k = "eol" ->
                 IF p = Len(s) + 1 \/ s[p] = NL THEN MatchHere(pat, k + 1, s, p) ELSE 0

\* re.sub(pat, repl, s): the leftmost non-overlapping matches, left to right
RECURSIVE SubFrom(_, _, _, _)
SubFrom(pat, repl, s, p) ==
  IF p > Len(s) THEN <<>>
  ELSE LET e == MatchHere(pat, 1, s, p)
       IN  IF e # 0 THEN repl \o SubFrom(pat, repl, s, e)
           ELSE <<s[p]>> \o SubFrom(pat, repl, s, p + 1)

re_sub(pat, repl, s) == SubFrom(pat, repl, s, 1)

\* re.search(pat, s) is not None
RECURSIVE SearchFrom(_, _, _)
SearchFrom(pat, s, p) ==
  IF p > Len(s) THEN FALSE
  ELSE MatchHere(pat, 1, s, p) # 0 \/ SearchFrom(pat, s, p + 1)

Contains(s, lit) == SearchFrom(Lit(lit), s, 1)

(***************************************************************************)
(* remove_console.py: the substitutions of remove_console_statements       *)
(***************************************************************************)
RemoveLogLines(content) == re_sub(LinePattern(ConsoleLog), <<>>, content)
RemoveWarnLines(content) == re_sub(LinePattern(ConsoleWarn), <<>>, content)
RemoveLogCalls(content) == re_sub(CallPattern(ConsoleLog), <<>>, content)
RemoveWarnCalls(content) == re_sub(CallPattern(ConsoleWarn), <<>>, content)
ReplaceCatch(content) == re_sub(CatchPattern, EmptyCatch, content)
\* two slips of the blank-line pattern: \n\n\n without the \s*, and \n\s*\n
CollapseBlankNoSpace(content) == re_sub(<<Chr(NL), Chr(NL), Chr(NL)>>, <<NL, NL>>, content)
CollapseBlankPairs(content) == re_sub(<<Chr(NL), Star("space"), Chr(NL)>>, <<NL, NL>>, content)
CollapseBlank(content) == re_sub(BlankPattern, <<NL, NL>>, content)

\* the text remove_console_statements writes back for a file holding content
remove_console_statements(content) ==
  CollapseBlank(ReplaceCatch(RemoveWarnCalls(RemoveLogCalls(
    RemoveWarnLines(RemoveLogLines(content))))))

(***************************************************************************)
(* clean_console.py: the line loop of clean_console_statements             *)
(***************************************************************************)
\* content.split('\n')
RECURSIVE SplitFrom(_, _, _)
SplitFrom(s, p, cur) ==
  IF p > Len(s) THEN <<cur>>
  ELSE IF s[p] = NL THEN <<cur>> \o SplitFrom(s, p + 1, <<>>)
  ELSE SplitFrom(s, p + 1, Append(cur, s[p]))

Split(content) == SplitFrom(content, 1, <<>>)

\* '\n'.join(lines)
RECURSIVE Join(_)
Join(lines) ==
  IF Len(lines) = 0 THEN <<>>
  ELSE IF Len(lines) = 1 THEN lines[1]
  ELSE lines[1] \o <<NL>> \o Join(Tail(lines))

\* line.strip()
RECURSIVE LStrip(_)
LStrip(s) == IF Len(s) > 0 /\ IsSpace(s[1]) THEN LStrip(Tail(s)) ELSE s

RECURSIVE RStrip(_)
RStrip(s) ==
  IF Len(s) > 0 /\ IsSpace(s[Len(s)]) THEN RStrip(SubSeq(s, 1, Len(s) - 1)) ELSE s

Strip(s) == RStrip(LStrip(s))

StartsWith(s, lit) == Len(s) >= Len(lit) /\ SubSeq(s, 1, Len(lit)) = lit

\* one iteration of the loop: the lines it appends to cleaned_lines
CleanLine(line) ==
  IF Contains(line, ConsoleLog) \/ Contains(line, ConsoleWarn)
  THEN IF StartsWith(Strip(line), ConsoleLog) \/ StartsWith(Strip(line), ConsoleWarn)
       THEN <<>>
       ELSE LET l2 == RemoveWarnCalls(RemoveLogCalls(line))
            IN  IF Strip(l2) # <<>> THEN <<l2>> ELSE <<>>
  ELSE <<line>>

\* the whole loop over lines
RECURSIVE CleanLines(_)
CleanLines(lines) ==
  IF Len(lines) = 0 THEN <<>> ELSE CleanLine(lines[1]) \o CleanLines(Tail(lines))

\* the text clean_console_statements writes back for a file holding content
clean_console_statements(content) == Join(CleanLines(Split(content)))

(***************************************************************************)
(* Input texts: the examples of the documentation, every concatenation of  *)
(* up to MaxFrags fragments of source text, and every text of up to        *)
(* MaxBlank characters over content, blank and newline.                    *)
(***************************************************************************)
MaxFrags == 3
MaxBlank == 6

\* the end-to-end scenario: three lines
ScenarioText ==
  <<"l","e","t"," ","x"," ","="," ","1",";","\n","c","o","n","s","o","l","e",
    ".","l","o","g","(","x",")",";","\n","c","o","n","s","o","l","e",".","e",
    "r","r","o","r","(","\"","f","a","i","l","\"",")",";">>

\* and the two lines expected of it
ScenarioExpected ==
  <<"l","e","t"," ","x"," ","="," ","1",";","\n","c","o","n","s","o","l","e",
    ".","e","r","r","o","r","(","\"","f","a","i","l","\"",")",";">>

\* a call first on its line, more after it
InlineFirstText ==
  <<"c","o","n","s","o","l","e",".","l","o","g","(","\"","x","\"",")",";"," ",
    "d","o","M","o","r","e","(",")",";">>

\* a call between two statements
InlineMiddleText ==
  <<"d","o","W","o","r","k","(",")",";"," ","c","o","n","s","o","l","e",".",
    "l","o","g","(","\"","x","\"",")",";"," ","d","o","M","o","r","e","(",")",
    ";">>

\* a console.error line after a line ending in a call
ErrorNextLineText ==
  <<"x",";"," ","c","o","n","s","o","l","e",".","l","o","g","(","a",")",";",
    "\n"," "," ","c","o","n","s","o","l","e",".","e","r","r","o","r","(","b",
    ")",";">>

\* a console.error after a call on the same line
ErrorSameLineText ==
  <<"c","o","n","s","o","l","e",".","w","a","r","n","(","a",")",";"," ","c",
    "o","n","s","o","l","e",".","e","r","r","o","r","(","b",")",";">>

\* an indented call on a line of its own
StandaloneText ==
  <<"a","\n"," "," "," "," ","c","o","n","s","o","l","e",".","l","o","g","(",
    "\"","h","i","\"",")",";","\n","b">>

\* a callback whose body is console.log
CatchLogText ==
  <<"p",".","c","a","t","c","h","(","e"," ","=",">"," ","c","o","n","s","o",
    "l","e",".","l","o","g","(","e",")",")",";">>

\* a callback whose body is console.warn
CatchWarnText ==
  <<"p",".","c","a","t","c","h","(","e"," ","=",">"," ","c","o","n","s","o",
    "l","e",".","w","a","r","n","(","e",")",")",";">>

\* a call that the removal of the next one completes
JoinedText ==
  <<"c","o","n","s","o","l","e",".","l","o","g","(","a",")","c","o","n","s",
    "o","l","e",".","l","o","g","(","b",")",";",";">>

Examples ==
  { ScenarioText, InlineFirstText, InlineMiddleText, ErrorNextLineText,
    ErrorSameLineText, StandaloneText, CatchLogText, CatchWarnText, JoinedText }

Fragments ==
  { ConsoleLog \o <<"x", ")">>, ConsoleLog \o <<"x", ")", ";">>,
    ConsoleWarn \o <<"x", ")">>, ConsoleError \o <<"x", ")", ";">>, Catch,
    <<")">>, <<";">>, <<" ">>, <<NL>>, <<"y">> }

RECURSIVE Concats(_, _)
Concats(parts, n) ==
  IF n = 0 THEN {<<>>}
  ELSE LET shorter == Concats(parts, n - 1)
       IN  shorter \cup {t \o f : t \in shorter, f \in parts}

FragTexts == Concats(Fragments, MaxFrags)
BlankTexts == Concats({<<"x">>, <<" ">>, <<NL>>}, MaxBlank)
Texts == Examples \cup FragTexts \cup BlankTexts

(***************************************************************************)
(* The run of one script.                                                  *)
(*   script         which of the two scripts runs                          *)
(*   pc             the statement about to be executed                     *)
(*   call           which of the two calls at the end of the script        *)
(*   content, lines, cleaned_lines   the locals of the function            *)
(*   fs             the files' contents; orig, their contents at start     *)
(*   touched        the files open() was called on                         *)
(*   written        the files whose write completed                        *)
(*   stdout         what was printed                                       *)
(***************************************************************************)
VARIABLES script, pc, call, content, lines, cleaned_lines, fs, orig, touched,
          written, stdout

vars == <<script, pc, call, content, lines, cleaned_lines, fs, orig, touched,
          written, stdout>>

Scripts == {"remove_console", "clean_console"}
Files == <<"flappy-bird.js", "leaderboard.js">>
FileSet == {Files[1], Files[2]}
file_path == Files[call]

Message ==
  IF script = "remove_console" THEN "Console statements removed successfully!"
  ELSE "Console statements cleaned successfully!"

\* No statement of either script catches an exception: an error of open, read
\* or write leaves the function and the script, and the process ends.
UncaughtSwallowed == "return"
Uncaught == "error"

\* Initially one file holds any of the texts and the other the scenario's text.

Init ==
  /\ script \in Scripts
  /\ pc = "open_r"
  /\ call = 1
  /\ content = <<>>
  /\ lines = <<>>
  /\ cleaned_lines = <<>>
  /\ \E t \in Texts :
        \/ fs = (Files[1] :> t) @@ (Files[2] :> ScenarioText)
        \/ fs = (Files[1] :> ScenarioText) @@ (Files[2] :> t)
  /\ orig = fs
  /\ touched = {}
  /\ written = {}
  /\ stdout = <<>>

\* with open(file_path, 'r') as f
OpenRead ==
  /\ pc = "open_r"
  /\ touched' = touched \cup {file_path}
  /\ \/ pc' = "read"
     \/ pc' = Uncaught
  /\ UNCHANGED <<script, call, content, lines, cleaned_lines, fs, orig, written, stdout>>

\* content = f.read()
ReadAll ==
  /\ pc = "read"
  /\ \/ /\ content' = fs[file_path]
        /\ pc' = IF script = "remove_console" THEN "sub_log_lines" ELSE "split"
     \/ /\ pc' = Uncaught
        /\ UNCHANGED content
  /\ UNCHANGED <<script, call, lines, cleaned_lines, fs, orig, touched, written, stdout>>

\* one re.sub statement of remove_console_statements
SubStep(at, result, next) ==
  /\ script = "remove_console"
  /\ pc = at
  /\ content' = result
  /\ pc' = next
  /\ UNCHANGED <<script, call, lines, cleaned_lines, fs, orig, touched, written, stdout>>

SubLogLines == SubStep("sub_log_lines", RemoveLogLines(content), "sub_warn_lines")
SubWarnLines == SubStep("sub_warn_lines", RemoveWarnLines(content), "sub_log_calls")
SubLogCalls == SubStep("sub_log_calls", RemoveLogCalls(content), "sub_warn_calls")
SubWarnCalls == SubStep("sub_warn_calls", RemoveWarnCalls(content), "sub_catch")
SubCatch == SubStep("sub_catch", ReplaceCatch(content), "collapse")
Collapse == SubStep("collapse", CollapseBlank(content), "open_w")

\* lines = content.split('\n'); cleaned_lines = []
SplitLines ==
  /\ script = "clean_console"
  /\ pc = "split"
  /\ lines' = Split(content)
  /\ cleaned_lines' = <<>>
  /\ pc' = "loop"
  /\ UNCHANGED <<script, call, content, fs, orig, touched, written, stdout>>

\* for line in lines: ...
Loop ==
  /\ script = "clean_console"
  /\ pc = "loop"
  /\ cleaned_lines' = CleanLines(lines)
  /\ pc' = "open_w"
  /\ UNCHANGED <<script, call, content, lines, fs, orig, touched, written, stdout>>

\* with open(file_path, 'w') as f: the file is truncated when it opens
OpenWrite ==
  /\ pc = "open_w"
  /\ touched' = touched \cup {file_path}
  /\ \/ /\ fs' = [fs EXCEPT ![file_path] = <<>>]
        /\ pc' = "write"
     \/ /\ pc' = Uncaught
        /\ UNCHANGED fs
  /\ UNCHANGED <<script, call, content, lines, cleaned_lines, orig, written, stdout>>

\* the text the function writes
Output == IF script = "remove_console" THEN content ELSE Join(cleaned_lines)

\* f.write(...) and the close of the file; a failed write leaves a part of the text
WriteAll ==
  /\ pc = "write"
  /\ \/ /\ fs' = [fs EXCEPT ![file_path] = Output]
        /\ written' = written \cup {file_path}
        /\ pc' = "return"
     \/ /\ \E n \in 0..Len(Output) : fs' = [fs EXCEPT ![file_path] = SubSeq(Output, 1, n)]
        /\ pc' = Uncaught
        /\ UNCHANGED written
  /\ UNCHANGED <<script, call, content, lines, cleaned_lines, orig, touched, stdout>>

\* the function returns: its locals are gone, the next statement of the script runs
Return ==
  /\ pc = "return"
  /\ content' = <<>>
  /\ lines' = <<>>
  /\ cleaned_lines' = <<>>
  /\ \/ /\ call = 1
        /\ call' = 2
        /\ pc' = "open_r"
     \/ /\ call = 2
        /\ pc' = "print"
        /\ UNCHANGED call
  /\ UNCHANGED <<script, fs, orig, touched, written, stdout>>

\* print("Console statements ... successfully!")
PrintDone ==
  /\ pc = "print"
  /\ stdout' = Append(stdout, Message)
  /\ pc' = "done"
  /\ UNCHANGED <<script, call, content, lines, cleaned_lines, fs, orig, touched, written>>

Next ==
  \/ OpenRead
  \/ ReadAll
  \/ SubLogLines
  \/ SubWarnLines
  \/ SubLogCalls
  \/ SubWarnCalls
  \/ SubCatch
  \/ Collapse
  \/ SplitLines
  \/ Loop
  \/ OpenWrite
  \/ WriteAll
  \/ Return
  \/ PrintDone

Spec == Init /\ [][Next]_vars

(***************************************************************************)
(* Vocabulary of the properties                                            *)
(***************************************************************************)
\* what the running script makes of a text
Transform(t) == IF script = "remove_console" THEN remove_console_statements(t) ELSE clean_console_statements(t)

\* console.log(...); or console.warn(...); with no ')' in the arguments
TargetedCall(name) == Lit(name) \o <<Star("notclose"), Chr(")"), Chr(";")>>
HasCall(s, name) == SearchFrom(TargetedCall(name), s, 1)
HasTargetedCall(s) == HasCall(s, ConsoleLog) \/ HasCall(s, ConsoleWarn)

\* console.error(...)
HasErrorCall(s) == SearchFrom(Lit(ConsoleError) \o <<Star("notclose"), Chr(")")>>, s, 1)

\* .catch(e => name(...)) with no ')' in the arguments
CatchArrow == <<".","c","a","t","c","h","(","e"," ","=",">"," ">>
HasCatchCall(s, name) ==
  SearchFrom(Lit(CatchArrow) \o Lit(name) \o <<Star("notclose"), Chr(")"), Chr(")")>>, s, 1)

Occurrences(s, lit) ==
  Cardinality({p \in 1..Len(s) : MatchHere(Lit(lit), 1, s, p) # 0})

\* a line holding exactly one targeted call, and what is left of it without the call
HasOneCall(line) ==
  /\ Occurrences(line, ConsoleLog) + Occurrences(line, ConsoleWarn) = 1
  /\ HasTargetedCall(line)
Rest(line) ==
  re_sub(CallPattern(ConsoleWarn), <<>>, re_sub(CallPattern(ConsoleLog), <<>>, line))

\* a line that is one targeted call and nothing else but blanks around it
Standalone(line) ==
  LET s == Strip(line)
  IN  \E name \in {ConsoleLog, ConsoleWarn} :
        MatchHere(TargetedCall(name), 1, s, 1) = Len(s) + 1
\* a line with content and no mention of a targeted function
Plain(line) ==
  /\ ~Contains(line, ConsoleLog)
  /\ ~Contains(line, ConsoleWarn)
  /\ Strip(line) # <<>>

IsLineOf(line, t) == \E j \in 1..Len(Split(t)) : Split(t)[j] = line

\* a maximal run of whitespace of s that starts at p holds n newlines or more
LongRunAt(s, p, n) ==
  /\ IsSpace(s[p])
  /\ (p = 1 \/ ~IsSpace(s[p - 1]))
  /\ Cardinality({i \in p..(p + RunLen("space", s, p) - 1) : s[i] = NL}) >= n
HasLongBlankRun(s) == \E p \in 1..Len(s) : LongRunAt(s, p, 3)

\* three consecutive blank (empty or whitespace-only) lines
HasThreeBlankLines(s) ==
  LET ls == Split(s)
  IN  \E i \in 1..(Len(ls) - 2) : \A j \in i..(i + 2) : Strip(ls[j]) = <<>>

(***************************************************************************)
(* C1.  A file holding the three lines of the scenario is written back as  *)
(* the two lines `let x = 1;` and `console.error("fail");`, with no empty  *)
(* line between them, by either script.                                    *)
(***************************************************************************)
C1_ScenarioOutput ==
  \A f \in written : orig[f] = ScenarioText => fs[f] = ScenarioExpected

(***************************************************************************)
(* C2.  A line that holds a targeted call and other content keeps the      *)
(* other content, in order, in the text written back, wherever the call    *)
(* sits in the line.                                                       *)
(***************************************************************************)
C2_InlineKeepsRest ==
  \A f \in written :
    \A i \in 1..Len(Split(orig[f])) :
      LET line == Split(orig[f])[i]
      IN  (HasOneCall(line) /\ Strip(Rest(line)) # <<>>)
            => Contains(fs[f], Strip(Rest(line)))

(***************************************************************************)
(* C3.  Every input line that holds a console.error(...) call is a line of *)
(* the text written back, unchanged, whatever else is on it or next to it. *)
(***************************************************************************)
C3_ErrorLineKept ==
  \A f \in written :
    \A i \in 1..Len(Split(orig[f])) :
      LET line == Split(orig[f])[i]
      IN  HasErrorCall(line) => IsLineOf(line, fs[f])

(***************************************************************************)
(* C4.  A line that is only a targeted call is deleted entirely: in a text *)
(* of such lines and of plain content lines, what is written back is the   *)
(* plain lines alone, one line fewer per call line, no empty line left.    *)
(***************************************************************************)
C4_StandaloneDeleted ==
  \A f \in written :
    LET ls == Split(orig[f])
    IN  ( /\ \A i \in 1..Len(ls) : Standalone(ls[i]) \/ Plain(ls[i])
          /\ \E i \in 1..Len(ls) : Standalone(ls[i]) )
          => fs[f] = Join(SelectSeq(ls, Plain))

(***************************************************************************)
(* C5.  remove_console_statements turns .catch(e => f(e)), for f either    *)
(* console.log or console.warn, into the no-op callback .catch(e => {}):   *)
(* the text written back holds the no-op callback and no such call to f.   *)
(***************************************************************************)
C5_CatchNeutralised ==
  script = "remove_console" =>
    \A f \in written :
      \A name \in {ConsoleLog, ConsoleWarn} :
        HasCatchCall(orig[f], name)
          => Contains(fs[f], EmptyCatch) /\ ~HasCatchCall(fs[f], name)

(***************************************************************************)
(* C6.  The blank-line collapse is idempotent: the text the collapse step  *)
(* leaves is unchanged by a second collapse.                               *)
(***************************************************************************)
C6_CollapseIdempotent ==
  (script = "remove_console" /\ pc = "open_w") => CollapseBlank(content) = content

\* the collapse step has shortened a run of four newlines with a blank in it
C6_Witness ==
  /\ script = "remove_console"
  /\ pc = "open_w"
  /\ orig[file_path] = <<"x", NL, " ", NL, NL, NL>>
  /\ content = <<"x", NL, NL>>

(***************************************************************************)
(* C7, as claimed.  The collapse step leaves unchanged every text without  *)
(* a run of three or more consecutive blank lines.                         *)
(***************************************************************************)
C7_OnlyThreeBlankLines ==
  [][(pc = "collapse" /\ ~HasThreeBlankLines(content)) => content' = content]_vars

(***************************************************************************)
(* C7, amended.  The collapse step leaves unchanged every text in which no *)
(* run of whitespace holds three or more newlines, that is every text      *)
(* without two or more consecutive blank lines between lines of content.   *)
(***************************************************************************)
C7_OnlyThreeNewlines ==
  [][(pc = "collapse" /\ ~HasLongBlankRun(content)) => content' = content]_vars

\* a text with one blank line between content lines went through the step unchanged
C7_Witness ==
  /\ script = "remove_console"
  /\ pc = "open_w"
  /\ orig[file_path] = <<"x", NL, " ", NL, "x">>
  /\ content = orig[file_path]

(***************************************************************************)
(* C8.  The two files are processed in sequence and a failed read or write *)
(* ends the run: leaderboard.js is opened only after flappy-bird.js was    *)
(* written, nothing follows a failure, and the message is printed only     *)
(* when both files were written.                                           *)
(***************************************************************************)
C8_FailureEndsRun ==
  /\ (Files[2] \in touched \/ call = 2) => Files[1] \in written
  /\ (pc = "error" /\ call = 1) => Files[2] \notin touched
  /\ pc = "error" => (stdout = <<>> /\ ~ENABLED Next)
  /\ stdout # <<>> => written = FileSet
  /\ pc \in {"print", "done"} => written = FileSet

\* the write of flappy-bird.js failed and the run has ended
C8_Witness ==
  /\ pc = "error"
  /\ call = 1
  /\ Files[1] \in touched
  /\ fs[Files[1]] # orig[Files[1]]

(***************************************************************************)
(* C9.  Running the transformation on text it has written is a no-op.      *)
(***************************************************************************)
C9_TransformIdempotent ==
  \A f \in written : Transform(fs[f]) = fs[f]

(***************************************************************************)
(* C10.  What remove_console_statements writes back holds no simple        *)
(* targeted call statement.                                                *)
(***************************************************************************)
C10_NoCallLeft ==
  script = "remove_console" => \A f \in written : ~HasTargetedCall(fs[f])

====
